---------------------------- MODULE Spec2Model ----------------------------
(***************************************************************************)
(* Model of the caloric-needs engine of CalCulator (src/calculate.py).     *)
(*                                                                         *)
(* The database is three tables (users, weights, calories); a table is the *)
(* sequence of its rows in rowid order.  calculate_caloric_needs reads the *)
(* tables and either raises an error or returns a result dictionary.       *)
(*                                                                         *)
(* The specifications share the variables.  Spec calls the calculation on  *)
(* sampled databases, SpecTrend calls calculate_weight_trend and           *)
(* SpecSummary calls trend_summary on sampled arguments.  SpecApp is a     *)
(* session of the main window (src/main.py): form entries, CSV imports,    *)
(* profile updates and calculations in any order; SpecForm is such a       *)
(* session with form entries and calculations only, SpecEntry one with     *)
(* form entries and imports only.  SpecCsv exports the data of a user and  *)
(* imports the written file into an empty database.                        *)
(*                                                                         *)
(* Numbers.  Python floats are modelled as exact rationals <<n, d>> with   *)
(* d > 0, kept in lowest terms.  The two transcendental functions of the   *)
(* code, np.exp(-i / half_life) and x ** 0.55, are tabulated to three      *)
(* decimals, and so is the height term of the BMR formula.  Rounding of    *)
(* binary floating point below that level is not represented; round() and  *)
(* the ":.2f" format are modelled as Python defines them (round half to    *)
(* even).  The weight, calories, age and height columns hold numbers; text *)
(* that SQLite would store unconverted is not represented.                 *)
(***************************************************************************)
EXTENDS Integers, Naturals, Sequences, FiniteSets, TLC

VARIABLES
    users,      \* table users (calculate.py 28-36): rows [id, sex, age, height, activity_level]
    weights,    \* table weights (calculate.py 41-47): rows [user_id, weight, date]
    calories,   \* table calories (calculate.py 52-58): rows [user_id, calories, date]
    call,       \* the arguments <<user_id, period_days>> of the last calculate_caloric_needs
    outcome,    \* what that call raised or returned
    tw,         \* the weights argument of calculate_weight_trend
    th,         \* its half_life argument
    trend,      \* what it returned
    repeat,     \* calls of calculate_caloric_needs made from the main window since
                \* the tables last changed
    summary_args,   \* the arguments <<daily_weight_change, avg_calories, delta>> of
                    \* trend_summary
    summary,    \* what it returned
    csv,        \* the file export_db_to_csv wrote last: its lines, each a
                \* sequence of cells
    restored    \* what import_csv_to_db makes of that file in an empty database

\* the variables of trend_summary and of the CSV export
aside == <<summary_args, summary, csv, restored>>

vars == <<users, weights, calories, call, outcome, tw, th, trend, repeat, aside>>

---------------------------------------------------------------------------
(* Bounds of the model                                                     *)

\* longest history drawn for a user (days of data)
MaxDays == 3

\* most rows the main window's session puts into the weights table, and
\* into the calories table
MaxRows == 3

\* the count of repeated calls stops here
MaxRepeat == 2

\* the user ids of the model: user 1 is the one whose histories vary
UserIds == {1, 2}

---------------------------------------------------------------------------
(* Rational arithmetic                                                     *)

Abs(x) == IF x < 0 THEN -x ELSE x

RECURSIVE Gcd(_, _)
Gcd(a, b) == IF b = 0 THEN a ELSE Gcd(b, a % b)

\* the rational n/d in lowest terms with a positive denominator
Rat(n, d) ==
    LET s == IF d < 0 THEN -1 ELSE 1
        g == Gcd(Abs(n), Abs(d))
    IN  <<(s * n) \div g, (s * d) \div g>>

RInt(k) == <<k, 1>>

RAdd(a, b) ==
    LET g == Gcd(a[2], b[2])
        l == (a[2] \div g) * b[2]
    IN  Rat(a[1] * (l \div a[2]) + b[1] * (l \div b[2]), l)

RNeg(a) == <<-a[1], a[2]>>

RSub(a, b) == RAdd(a, RNeg(b))

RAbs(a) == <<Abs(a[1]), a[2]>>

RMul(a, b) ==
    LET g1 == Gcd(Abs(a[1]), b[2])
        g2 == Gcd(Abs(b[1]), a[2])
    IN  Rat((a[1] \div g1) * (b[1] \div g2), (a[2] \div g2) * (b[2] \div g1))

\* a / b, b # 0
RDiv(a, b) == RMul(a, IF b[1] < 0 THEN <<-b[2], -b[1]>> ELSE <<b[2], b[1]>>)

RLess(a, b) == RSub(a, b)[1] < 0

RLeq(a, b) == RSub(a, b)[1] <= 0

RECURSIVE RSum(_)
RSum(s) == IF s = << >> THEN RInt(0) ELSE RAdd(s[1], RSum(Tail(s)))

\* the integer part of a, rounding toward minus infinity
RFloor(a) == a[1] \div a[2]

---------------------------------------------------------------------------
(* Python built-ins used by the code                                       *)

\* round(x) with one argument: nearest integer, ties to the even one
round(x) ==
    LET q == RFloor(x)
        r == x[1] - q * x[2]
    IN  IF 2 * r < x[2] THEN q
        ELSE IF 2 * r > x[2] THEN q + 1
        ELSE IF q % 2 = 0 THEN q ELSE q + 1

\* f"{x:.2f}": the decimal text of x with two decimals, as the signed
\* number of hundredths it shows ("-0.49" is -49)
Format2f(x) == round(RMul(x, RInt(100)))

\* x to three decimals: the precision kept for the terms of the BMR formula
Milli(x) == Rat(round(RMul(x, RInt(1000))), 1000)

\* str.lower() on the values the sex column holds
Lower(s) ==
    CASE s = "Male" -> "male"
      [] s = "Female" -> "female"
      [] OTHER -> s

\* np.exp(-i / half_life), to three decimals, for the half-lives of the model
ExpTable7 == <<1000, 867, 751, 651, 565, 490, 424, 368, 319, 276>>
ExpTable1 == <<1000, 368, 135, 50, 18, 7>>
ExpTable14 == <<1000, 931, 867, 807, 751, 700>>
\* a negative half-life makes the exponent positive: exp(i / 7)
ExpTableMinus7 == <<1000, 1154, 1331, 1535, 1771, 2043>>

ExpNeg(i, half_life) ==
    CASE half_life = 7 -> Rat(ExpTable7[i + 1], 1000)
      [] half_life = 1 -> Rat(ExpTable1[i + 1], 1000)
      [] half_life = 14 -> Rat(ExpTable14[i + 1], 1000)
      [] half_life = -7 -> Rat(ExpTableMinus7[i + 1], 1000)

\* the float nan: numpy divides by zero with a RuntimeWarning, not an error,
\* so -0 / 0 is nan, and every sum, quotient and product with nan is nan
NaN == <<0, 0>>

\* (w * 0.453592) ** 0.55 for the weights w (in pounds) of the model, to
\* three decimals
Pow055Kg(w) ==
    CASE w = Rat(150, 1) -> Rat(10186, 1000)
      [] w = Rat(3001, 20) -> Rat(10188, 1000)
      [] w = Rat(4553617, 30345) -> Rat(10189, 1000)
      [] w = Rat(608767, 4046) -> Rat(10204, 1000)
      [] w = Rat(305317, 2023) -> Rat(10221, 1000)
      [] w = Rat(151, 1) -> Rat(10224, 1000)
      [] w = Rat(180, 1) -> Rat(11261, 1000)

---------------------------------------------------------------------------
(* calculate_weight_trend                                                  *)

\* the decay weights not divided by their sum
calculate_weight_trend_unnormalized(ws, half_life) ==
    LET days == Len(ws)
    IN  IF half_life = 0
        THEN IF days = 0 THEN RInt(0) ELSE NaN
        ELSE LET decay == [i \in 1..days |-> ExpNeg(i - 1, half_life)]
             IN  RSum([i \in 1..days |-> RMul(ws[i], decay[i])])

\* the decay weights divided by one more than their sum
decay_weights_damped(days, half_life) ==
    LET decay == [i \in 1..days |-> ExpNeg(i - 1, half_life)]
        total == RAdd(RSum(decay), RInt(1))
    IN  [i \in 1..days |-> RDiv(decay[i], total)]

\* the decay weights in reverse: the oldest sample weighs most
decay_weights_reversed(days, half_life) ==
    LET decay == [i \in 1..days |-> ExpNeg(days - i, half_life)]
        total == RSum(decay)
    IN  [i \in 1..days |-> RDiv(decay[i], total)]

\* decay_weights after "decay_weights /= decay_weights.sum()", half_life # 0;
\* position 1 is the code's position 0
decay_weights(days, half_life) ==
    LET decay == [i \in 1..days |-> ExpNeg(i - 1, half_life)]
        total == RSum(decay)
    IN  [i \in 1..days |-> RDiv(decay[i], total)]

\* no statement of the function raises: with half_life = 0 the first decay
\* weight is exp(-0 / 0) = nan, and so is the sum returned; an empty array
\* has no element to divide and sums to 0.0
calculate_weight_trend(ws, half_life) ==
    LET days == Len(ws)
    IN  IF half_life = 0
        THEN IF days = 0 THEN RInt(0) ELSE NaN
        ELSE LET dw == decay_weights(days, half_life)
             IN  RSum([i \in 1..days |-> RMul(ws[i], dw[i])])

---------------------------------------------------------------------------
(* The queries of calculate_caloric_needs                                  *)

\* a date column holds text; SQLite orders text byte by byte
RECURSIVE TextLess(_, _)
TextLess(a, b) ==
    IF b = << >> THEN FALSE
    ELSE IF a = << >> THEN TRUE
    ELSE IF a[1] # b[1] THEN a[1] < b[1]
    ELSE TextLess(Tail(a), Tail(b))

\* WHERE user_id = ?
WhereUser(table, user_id) == SelectSeq(table, LAMBDA r : r.user_id = user_id)

\* ORDER BY date DESC: the row with the greatest date first.  Rows of equal
\* date are taken in rowid order; no state below has two such rows of one
\* user
RECURSIVE OrderByDateDesc(_)
OrderByDateDesc(rows) ==
    IF rows = << >> THEN << >>
    ELSE LET k == CHOOSE i \in 1..Len(rows) :
                      /\ \A j \in 1..Len(rows) : ~TextLess(rows[i].date, rows[j].date)
                      /\ \A j \in 1..(i - 1) : rows[j].date # rows[i].date
             rest == [j \in 1..(Len(rows) - 1) |->
                          IF j < k THEN rows[j] ELSE rows[j + 1]]
         IN  <<rows[k]>> \o OrderByDateDesc(rest)

\* LIMIT ?: a negative limit is no limit
Limit(rows, n) ==
    IF n < 0 \/ n >= Len(rows) THEN rows ELSE SubSeq(rows, 1, n)

\* the bound parameter (period_days if period_days else -1)
LimitParam(period_days) == IF period_days # 0 THEN period_days ELSE -1

FetchWeights(user_id, period_days) ==
    Limit(OrderByDateDesc(WhereUser(weights, user_id)), LimitParam(period_days))

FetchCalories(user_id, period_days) ==
    Limit(OrderByDateDesc(WhereUser(calories, user_id)), LimitParam(period_days))

\* the query without its WHERE clause
FetchUser_any(user_id) == IF users = << >> THEN << >> ELSE <<users[1]>>

\* SELECT sex, age, height, activity_level FROM users WHERE id = ?; fetchone()
FetchUser(user_id) ==
    LET found == SelectSeq(users, LAMBDA r : r.id = user_id)
    IN  IF found = << >> THEN << >> ELSE <<found[1]>>

---------------------------------------------------------------------------
(* calculate_caloric_needs                                                 *)

\* raise ValueError(message): the call ends with the error and no value
Raise(message) == [kind |-> "error", error |-> message]

\* a result without its Warning
Return_partial(value) ==
    [kind |-> "result",
     value |-> [k \in DOMAIN value \ {"Warning"} |-> value[k]]]

\* return {...}
Return(value) == [kind |-> "result", value |-> value]

\* the age term changing at 60 exclusive
bmr_age_strict(weight, sex, age, height) ==
    LET cm == RMul(RInt(height), Rat(254, 100))
        age_term == IF age < 60 THEN RMul(Rat(196, 100), RInt(age))
                    ELSE RMul(Rat(49, 10), RInt(age - 60))
        sex_term == RMul(Rat(2138, 10),
                         RInt(IF Lower(sex) = "male" THEN 0 ELSE 1))
    IN  RSub(RSub(RAdd(RMul(Rat(1296, 10), Pow055Kg(weight)),
                       Milli(RMul(Rat(11, 1000), RMul(cm, cm)))),
                  age_term),
             sex_term)

bmr(weight, sex, age, height) ==
    LET cm == RMul(RInt(height), Rat(254, 100))
        age_term == IF age <= 60 THEN RMul(Rat(196, 100), RInt(age))
                    ELSE RMul(Rat(49, 10), RInt(age - 60))
        sex_term == RMul(Rat(2138, 10),
                         RInt(IF Lower(sex) = "male" THEN 0 ELSE 1))
    IN  RSub(RSub(RAdd(RMul(Rat(1296, 10), Pow055Kg(weight)),
                       Milli(RMul(Rat(11, 1000), RMul(cm, cm)))),
                  age_term),
             sex_term)

\* the table with one key misspelt
pal_dict_misspelt ==
    ("sedentary" :> Rat(12, 10)) @@ ("lightly active" :> Rat(1375, 1000))
    @@ ("moderately active" :> Rat(155, 100)) @@ ("very_active" :> Rat(1725, 1000))
    @@ ("extremely active" :> Rat(19, 10))

\* the table with the factors of two levels exchanged
pal_dict_exchanged ==
    ("sedentary" :> Rat(12, 10)) @@ ("lightly active" :> Rat(1375, 1000))
    @@ ("moderately active" :> Rat(1725, 1000)) @@ ("very active" :> Rat(155, 100))
    @@ ("extremely active" :> Rat(19, 10))

pal_dict ==
    ("sedentary" :> Rat(12, 10)) @@ ("lightly active" :> Rat(1375, 1000))
    @@ ("moderately active" :> Rat(155, 100)) @@ ("very active" :> Rat(1725, 1000))
    @@ ("extremely active" :> Rat(19, 10))

delta == Rat(1, 10)

\* the change measured from the oldest entry fetched
avg_weight_change_from_oldest(ws) ==
    RDiv(RSub(calculate_weight_trend(ws, 7), ws[Len(ws)]),
         RDiv(RInt(Len(ws)), RInt(7)))

\* avg_weight_change, in lbs/week
avg_weight_change(ws) ==
    RDiv(RSub(calculate_weight_trend(ws, 7), ws[1]), RDiv(RInt(Len(ws)), RInt(7)))

\* the energy balance added to the average intake
maintenance_from_average_added(cs, change) ==
    LET avg_calories == RDiv(RSum(cs), RInt(Len(cs)))
        energy_balance == RMul(change, RInt(3500))
    IN  RAdd(avg_calories, energy_balance)

\* maintenance_calories before the adjustment by trend
maintenance_from_average(cs, change) ==
    LET avg_calories == RDiv(RSum(cs), RInt(Len(cs)))
        energy_balance == RMul(change, RInt(3500))
    IN  RSub(avg_calories, energy_balance)

\* the gain target with the increment of the lose target
gain_calories_one_pound(maintenance_calories) ==
    RAdd(maintenance_calories, RDiv(RMul(RInt(1), RInt(3500)), RInt(7)))

\* +0.5 lb/week
gain_calories(maintenance_calories) ==
    RAdd(maintenance_calories, RDiv(RMul(Rat(1, 2), RInt(3500)), RInt(7)))

\* the lose target with the decrement of the gain target
lose_calories_half_pound(maintenance_calories) ==
    RSub(maintenance_calories, RDiv(RMul(Rat(1, 2), RInt(3500)), RInt(7)))

\* -1.0 lb/week
lose_calories(maintenance_calories) ==
    RSub(maintenance_calories, RDiv(RMul(RInt(1), RInt(3500)), RInt(7)))

MaintainingText ==
    <<"You are maintaining weight. Continue at your current calorie level\nif you want to stay around this weight.">>

LosingText(shown) ==
    <<"You are losing weight at ", shown,
      " lbs/week.Consider increasing calories if you don't want to lose weight this quickly.">>

GainingText(shown) ==
    <<"You are gaining weight at ", shown,
      " lbs/week.Consider reducing calories if you don't want to gain weight this quickly.">>

\* the maintaining band without its endpoints
adjust_open(change, cs) ==
    LET maintenance_calories == maintenance_from_average(cs, change)
        kept == [Maintenance |-> maintenance_calories,
                 Gain |-> gain_calories(maintenance_calories),
                 Lose |-> lose_calories(maintenance_calories)]
    IN  IF RLess(RNeg(delta), change) /\ RLess(change, delta)
        THEN LET overridden == RInt(round(cs[1]))
             IN  [Recommendation |-> MaintainingText,
                  Maintenance |-> overridden,
                  Gain |-> gain_calories(overridden),
                  Lose |-> lose_calories(overridden)]
        ELSE IF RLess(change, RNeg(delta))
        THEN [Recommendation |-> LosingText(Format2f(change))] @@ kept
        ELSE IF RLess(delta, change)
        THEN [Recommendation |-> GainingText(Format2f(change))] @@ kept
        ELSE [Recommendation |-> << >>] @@ kept

\* the dynamic adjustment based on trends: the recommendation and the three
\* calorie targets it leaves
adjust(change, cs) ==
    LET maintenance_calories == maintenance_from_average(cs, change)
        kept == [Maintenance |-> maintenance_calories,
                 Gain |-> gain_calories(maintenance_calories),
                 Lose |-> lose_calories(maintenance_calories)]
    IN  IF RLeq(RNeg(delta), change) /\ RLeq(change, delta)
        THEN LET overridden == RInt(round(cs[1]))
             IN  [Recommendation |-> MaintainingText,
                  Maintenance |-> overridden,
                  Gain |-> gain_calories(overridden),
                  Lose |-> lose_calories(overridden)]
        ELSE IF RLess(change, RNeg(delta))
        THEN [Recommendation |-> LosingText(Format2f(change))] @@ kept
        ELSE IF RLess(delta, change)
        THEN [Recommendation |-> GainingText(Format2f(change))] @@ kept
        ELSE [Recommendation |-> << >>] @@ kept

LosingWarning ==
    "Warning: You are losing weight too rapidly. Consider increasing calories."

GainingWarning ==
    "Warning: You are gaining weight too rapidly. Consider reducing calories."

\* the thresholds taken as part of the rapid ranges
rapid_change_warning_inclusive(change) ==
    IF RLeq(change, Rat(-15, 10)) THEN LosingWarning
    ELSE IF RLeq(Rat(75, 100), change) THEN GainingWarning
    ELSE ""

\* the two warnings exchanged
rapid_change_warning_swapped(change) ==
    IF RLess(change, Rat(-15, 10)) THEN GainingWarning
    ELSE IF RLess(Rat(75, 100), change) THEN LosingWarning
    ELSE ""

rapid_change_warning(change) ==
    IF RLess(change, Rat(-15, 10)) THEN LosingWarning
    ELSE IF RLess(Rat(75, 100), change) THEN GainingWarning
    ELSE ""

\* the length check left out
lengths_differ_unchecked(weights_data, calories_data) == FALSE

\* len(weights_data) != len(calories_data)
lengths_differ(weights_data, calories_data) == Len(weights_data) # Len(calories_data)

\* the emptiness check left out
no_data_unchecked(ws, cs) == FALSE

\* not weights or not calories
no_data(ws, cs) == ws = << >> \/ cs = << >>

\* not user_data
user_missing(user_data) == user_data = << >>

\* not pal, for pal = pal_dict.get(activity_level)
invalid_level(activity_level) == activity_level \notin DOMAIN pal_dict

\* the profile looked up before the histories are validated
calculate_caloric_needs_profile_first(user_id, period_days) ==
    LET weights_data == FetchWeights(user_id, period_days)
        calories_data == FetchCalories(user_id, period_days)
        ws == [i \in 1..Len(weights_data) |-> weights_data[i].weight]
        cs == [i \in 1..Len(calories_data) |-> calories_data[i].calories]
        user_data == FetchUser(user_id)
    IN  IF user_missing(user_data)
        THEN Raise("User data not found.")
        ELSE IF lengths_differ(weights_data, calories_data)
        THEN Raise("Weights and calories lists must have the same length.")
        ELSE IF no_data(ws, cs)
        THEN Raise("No data found for the user.")
        ELSE IF invalid_level(user_data[1].activity_level)
        THEN Raise("Invalid activity level.")
        ELSE LET u == user_data[1]
                 maintenance_bmr == RMul(bmr(ws[1], u.sex, u.age, u.height),
                                         pal_dict[u.activity_level])
                 change == avg_weight_change(ws)
                 adj == adjust(change, cs)
             IN  Return([BMR |-> round(maintenance_bmr),
                         Maintenance |-> round(adj.Maintenance),
                         Gain |-> round(adj.Gain),
                         Lose |-> round(adj.Lose),
                         Recommendation |-> adj.Recommendation,
                         Warning |-> rapid_change_warning(change)])

calculate_caloric_needs(user_id, period_days) ==
    LET weights_data == FetchWeights(user_id, period_days)
        calories_data == FetchCalories(user_id, period_days)
        ws == [i \in 1..Len(weights_data) |-> weights_data[i].weight]
        cs == [i \in 1..Len(calories_data) |-> calories_data[i].calories]
        user_data == FetchUser(user_id)
    IN  IF lengths_differ(weights_data, calories_data)
        THEN Raise("Weights and calories lists must have the same length.")
        ELSE IF no_data(ws, cs)
        THEN Raise("No data found for the user.")
        ELSE IF user_missing(user_data)
        THEN Raise("User data not found.")
        ELSE IF ws = << >>
        THEN Raise("list index out of range")       \* weights[0] of an empty list
        ELSE IF invalid_level(user_data[1].activity_level)
        THEN Raise("Invalid activity level.")
        ELSE IF cs = << >>
        THEN Raise("division by zero")              \* sum(calories) / len(calories)
        ELSE LET u == user_data[1]
                 maintenance_bmr == RMul(bmr(ws[1], u.sex, u.age, u.height),
                                         pal_dict[u.activity_level])
                 change == avg_weight_change(ws)
                 adj == adjust(change, cs)
             IN  Return([BMR |-> round(maintenance_bmr),
                         Maintenance |-> round(adj.Maintenance),
                         Gain |-> round(adj.Gain),
                         Lose |-> round(adj.Lose),
                         Recommendation |-> adj.Recommendation,
                         Warning |-> rapid_change_warning(change)])

---------------------------------------------------------------------------
(* States and steps                                                        *)

\* the text SQLite stores for a datetime.date of January 2024: the year and
\* the month are the same in every row, so only the two day digits are kept
IsoDate(day) == <<day \div 10, day % 10>>

\* sampled column values: weights in pounds, calories in kcal
WeightValues == {Rat(150, 1), Rat(3001, 20), Rat(151, 1)}
CalorieValues == {Rat(2000, 1), Rat(5001, 2)}
ProfileSamples ==
    [sex : {"Male"}, age : {30}, height : {70},
     activity_level : DOMAIN pal_dict \cup {"super_active"}]
    \cup [sex : {"Female"}, age : {65}, height : {64}, activity_level : {"sedentary"}]
PeriodDays == {-1, 0, 2}

\* further users rows, each drawn with at most one day of data: the ages
\* around 60 for either sex, and a level spelt with an underscore
EdgeProfiles ==
    [sex : {"Male", "Female"}, age : {60, 61}, height : {70},
     activity_level : {"sedentary"}]
    \cup [sex : {"Male"}, age : {30}, height : {70},
          activity_level : {"lightly_active"}]

\* the two-day weight histories (oldest first) whose weekly rate of change
\* is exactly one of the thresholds 0.1, 0.75, 1.5 or its negative
ThresholdWeights == {Rat(4553617, 30345), Rat(608767, 4046), Rat(305317, 2023)}
ThresholdHistories ==
    {<<Rat(150, 1), w>> : w \in ThresholdWeights}
    \cup {<<w, Rat(150, 1)>> : w \in ThresholdWeights}

\* user 2: a registered user with a weight row and no calorie row, the same
\* in every state
OtherUser == [id |-> 2, sex |-> "Female", age |-> 65, height |-> 64,
              activity_level |-> "moderately active"]
OtherWeight == [user_id |-> 2, weight |-> Rat(180, 1), date |-> IsoDate(9)]

\* a week that ends at 180 lb after a pound less every day, eating 2500 kcal
\* a day
WeekOfWeights ==
    <<Rat(186, 1), Rat(185, 1), Rat(184, 1), Rat(183, 1), Rat(182, 1),
      Rat(181, 1), Rat(180, 1)>>
WeekOfCalories == [i \in 1..Len(WeekOfWeights) |-> Rat(2500, 1)]

\* histories are written oldest day first, the order the rows are inserted in
WeightHistories ==
    UNION {[1..n -> WeightValues] : n \in 0..MaxDays} \cup ThresholdHistories
    \cup {WeekOfWeights}

\* calorie histories of 2000 kcal a day, the last day any sampled value
CalorieHistories ==
    {<< >>} \cup
    {[i \in 1..n |-> IF i = n THEN c ELSE Rat(2000, 1)] :
        n \in 1..MaxDays, c \in CalorieValues}
    \cup {WeekOfCalories}

WeightRows(h) ==
    [i \in 1..Len(h) |-> [user_id |-> 1, weight |-> h[i], date |-> IsoDate(i)]]

CalorieRows(h) ==
    [i \in 1..Len(h) |-> [user_id |-> 1, calories |-> h[i], date |-> IsoDate(i)]]

NoCall == << >>
NoOutcome == [kind |-> "none"]
NoFile == << >>

\* trend_summary not called, nothing exported
AsideIdle ==
    /\ summary_args = << >>
    /\ summary = NoOutcome
    /\ csv = NoFile
    /\ restored = NoOutcome

\* a database as create_user and import_csv_to_db leave it: user 1 with or
\* without a users row, and with any two histories of up to MaxDays days
InitDb ==
    \E p \in ProfileSamples \cup EdgeProfiles \cup {<< >>},
       hw \in WeightHistories, hc \in CalorieHistories :
        /\ p \in EdgeProfiles => (Len(hw) <= 1 /\ Len(hc) <= 1)
        /\ users = <<OtherUser>> \o
                   (IF p = << >> THEN << >>
                    ELSE <<[id |-> 1, sex |-> p.sex, age |-> p.age,
                            height |-> p.height,
                            activity_level |-> p.activity_level]>>)
        /\ weights = <<OtherWeight>> \o WeightRows(hw)
        /\ calories = CalorieRows(hc)

Init ==
    /\ InitDb
    /\ call = NoCall
    /\ outcome = NoOutcome
    /\ tw = << >>
    /\ th = 7
    /\ trend = NoOutcome
    /\ repeat = 0
    /\ AsideIdle

\* one call calculate_caloric_needs(conn, user_id, period_days)
Calculate(user_id, period_days) ==
    /\ call' = <<user_id, period_days>>
    /\ outcome' = calculate_caloric_needs(user_id, period_days)
    /\ UNCHANGED <<users, weights, calories, tw, th, trend, repeat, aside>>

Next == \E user_id \in UserIds, period_days \in PeriodDays : Calculate(user_id, period_days)

Spec == Init /\ [][Next]_vars

---------------------------------------------------------------------------
(* calculate_weight_trend on its own                                       *)

TrendWeightValues ==
    {Rat(148, 1), Rat(150, 1), Rat(3001, 20), Rat(151, 1), Rat(827, 5)}

\* the half-lives the function is called with: the default, two other
\* positive ones, zero and a negative one
HalfLives == {7, 1, 14, 0, -7}

InitTrend ==
    /\ users = << >>
    /\ weights = << >>
    /\ calories = << >>
    /\ call = NoCall
    /\ outcome = NoOutcome
    /\ tw \in UNION {[1..n -> TrendWeightValues] : n \in 0..MaxDays}
    /\ th \in HalfLives
    /\ trend = NoOutcome
    /\ repeat = 0
    /\ AsideIdle

\* one call calculate_weight_trend(tw, th)
CalcTrend ==
    /\ trend' = [kind |-> "result", value |-> calculate_weight_trend(tw, th)]
    /\ UNCHANGED <<users, weights, calories, call, outcome, tw, th, repeat, aside>>

NextTrend == CalcTrend

SpecTrend == InitTrend /\ [][NextTrend]_vars

---------------------------------------------------------------------------
(* trend_summary                                                           *)

\* the maintaining band without its endpoints
trend_summary_strict(daily_weight_change, avg_calories, delta_) ==
    LET described ==
            IF RLess(RAbs(daily_weight_change), delta_)
            THEN <<"you are maintaining your weight.">>
            ELSE IF RLess(delta_, daily_weight_change)
            THEN <<"you are gaining weight at ", Format2f(daily_weight_change),
                   "lbs/day.">>
            ELSE <<"you are losing weight at ", Format2f(RAbs(daily_weight_change)),
                   "lbs/day.">>
    IN  <<"Eating ", round(avg_calories), " calories on average, ">> \o described

\* trend_summary(daily_weight_change, avg_calories, delta): the text as its
\* pieces, a number shown with two decimals as its hundredths
trend_summary(daily_weight_change, avg_calories, delta_) ==
    LET described ==
            IF RLeq(RAbs(daily_weight_change), delta_)
            THEN <<"you are maintaining your weight.">>
            ELSE IF RLess(delta_, daily_weight_change)
            THEN <<"you are gaining weight at ", Format2f(daily_weight_change),
                   "lbs/day.">>
            ELSE <<"you are losing weight at ", Format2f(RAbs(daily_weight_change)),
                   "lbs/day.">>
    IN  <<"Eating ", round(avg_calories), " calories on average, ">> \o described

\* sampled arguments: changes on, next to and far from the thresholds
DailyChanges ==
    {Rat(-3, 2), Rat(-1, 2), Rat(-21, 200), Rat(-1, 10), Rat(-1, 20), RInt(0),
     Rat(1, 20), Rat(1, 10), Rat(21, 200), Rat(1, 2), Rat(3, 4)}
AverageIntakes == {Rat(2000, 1), Rat(5001, 2), Rat(7001, 3)}
Deltas == {Rat(1, 10), Rat(1, 2)}

InitSummary ==
    /\ users = << >>
    /\ weights = << >>
    /\ calories = << >>
    /\ call = NoCall
    /\ outcome = NoOutcome
    /\ tw = << >>
    /\ th = 7
    /\ trend = NoOutcome
    /\ repeat = 0
    /\ summary_args \in DailyChanges \X AverageIntakes \X Deltas
    /\ summary = NoOutcome
    /\ csv = NoFile
    /\ restored = NoOutcome

\* one call trend_summary(daily_weight_change, avg_calories, delta)
Summarize ==
    /\ summary' = [kind |-> "result",
                   value |-> trend_summary(summary_args[1], summary_args[2],
                                           summary_args[3])]
    /\ UNCHANGED <<users, weights, calories, call, outcome, tw, th, trend, repeat,
                   summary_args, csv, restored>>

NextSummary == Summarize

SpecSummary == InitSummary /\ [][NextSummary]_vars

---------------------------------------------------------------------------
(* The main window: data entry, CSV import and the calculation             *)

\* the user the main window was opened for (self.user_id)
SessionUser == 1

\* the days of January 2024 picked in the calendar or written in a file
EntryDays == {5, 10}

\* QDate.toString("yyyy-MM-d"): the day is written without a leading zero;
\* only the day digits are kept, as in IsoDate
FormDate(day) == IF day < 10 THEN <<day>> ELSE <<day \div 10, day % 10>>

\* the text typed into the weight and the calories field
WeightTexts == {"150", "151"}
CalorieTexts == {"2500"}

\* the calories typed in the sessions that only enter data
EntryCalorieTexts == {"2000", "2500"}

\* the text typed into the age and the height field of the update form
AgeTexts == {"30"}
HeightTexts == {"70"}

\* the items of the activity level box of the update form
ActivityLabels ==
    <<"Sedentary (little or no exercise)",
      "Lightly active (light exercise/sports 1-3 days/week)",
      "Moderately active (moderate exercise/sports 3-5 days/week)",
      "Very active (hard exercise/sports 6-7 days a week)",
      "Extremely active (very hard exercise & physical job or 2x training)">>

\* the items picked in the model: the first and the fourth
PickedLabels == {ActivityLabels[1], ActivityLabels[4]}

\* the number a numeric text stands for: float(text) and int(text) in
\* import_csv_to_db, and the REAL and INTEGER column affinity of SQLite for
\* the text the form passes
NumberOf(text) ==
    CASE text = "150" -> Rat(150, 1)
      [] text = "151" -> Rat(151, 1)
      [] text = "2000" -> Rat(2000, 1)
      [] text = "2500" -> Rat(2500, 1)
      [] text = "30" -> Rat(30, 1)
      [] text = "70" -> Rat(70, 1)
      [] text = "150.0" -> Rat(150, 1)
      [] text = "151.0" -> Rat(151, 1)

\* datetime.strptime(text, "%Y-%m-%d").date(), as the day of January 2024
StrpDay(text) ==
    CASE text = "2024-01-05" -> 5
      [] text = "2024-01-10" -> 10

CsvRow(date, weight, cals) == [Date |-> date, Weight |-> weight, Calories |-> cals]

\* the files picked for import: one full row; a weight on one day and
\* calories on another; the same date twice
CsvFiles ==
    {<<CsvRow("2024-01-05", "150", "2000")>>,
     <<CsvRow("2024-01-05", "150", ""), CsvRow("2024-01-10", "", "2000")>>,
     <<CsvRow("2024-01-10", "150", "2000"), CsvRow("2024-01-10", "150", "2000")>>}

\* the number of rows a table holds for a user
RowsOf(table, user_id) == Len(WhereUser(table, user_id))

\* the rows the loop of import_csv_to_db inserts into weights
RECURSIVE ImportedWeights(_, _)
ImportedWeights(file, user_id) ==
    IF file = << >> THEN << >>
    ELSE (IF file[1].Weight # ""
          THEN <<[user_id |-> user_id, weight |-> NumberOf(file[1].Weight),
                  date |-> IsoDate(StrpDay(file[1].Date))]>>
          ELSE << >>) \o ImportedWeights(Tail(file), user_id)

\* the rows it inserts into calories
RECURSIVE ImportedCalories(_, _)
ImportedCalories(file, user_id) ==
    IF file = << >> THEN << >>
    ELSE (IF file[1].Calories # ""
          THEN <<[user_id |-> user_id, calories |-> NumberOf(file[1].Calories),
                  date |-> IsoDate(StrpDay(file[1].Date))]>>
          ELSE << >>) \o ImportedCalories(Tail(file), user_id)

\* import_csv_to_db(conn, file_path, user_id): every row is inserted
import_csv_to_db(file, user_id) ==
    LET ws == ImportedWeights(file, user_id)
        cs == ImportedCalories(file, user_id)
    IN  /\ RowsOf(weights, user_id) + Len(ws) <= MaxRows
        /\ RowsOf(calories, user_id) + Len(cs) <= MaxRows
        /\ weights' = weights \o ws
        /\ calories' = calories \o cs

\* MainWindow.import_data with a file picked
import_data(file) ==
    /\ import_csv_to_db(file, SessionUser)
    /\ repeat' = 0
    /\ UNCHANGED <<users, call, outcome, tw, th, trend, aside>>

\* SELECT ... WHERE user_id = ? AND date = ?; fetchone() is not None
HasEntry(table, user_id, date) ==
    \E i \in 1..Len(table) : table[i].user_id = user_id /\ table[i].date = date

\* UPDATE weights SET weight = ? WHERE user_id = ? AND date = ?
UpdateWeights(user_id, date, weight) ==
    [i \in 1..Len(weights) |->
        IF weights[i].user_id = user_id /\ weights[i].date = date
        THEN [weights[i] EXCEPT !.weight = weight] ELSE weights[i]]

\* UPDATE calories SET calories = ? WHERE user_id = ? AND date = ?
UpdateCalories(user_id, date, cals) ==
    [i \in 1..Len(calories) |->
        IF calories[i].user_id = user_id /\ calories[i].date = date
        THEN [calories[i] EXCEPT !.calories = cals] ELSE calories[i]]

\* the answer to the prompt not looked at
weight_entry_no_prompt(selected_date, weight, cals, reply) ==
    LET weight_entry_found == HasEntry(weights, SessionUser, selected_date)
        calorie_entry_found == HasEntry(calories, SessionUser, selected_date)
    IN  /\ weights' =
               IF weight_entry_found
               THEN UpdateWeights(SessionUser, selected_date, NumberOf(weight))
               ELSE Append(weights, [user_id |-> SessionUser,
                                     weight |-> NumberOf(weight),
                                     date |-> selected_date])
        /\ calories' =
               IF calorie_entry_found
               THEN UpdateCalories(SessionUser, selected_date, NumberOf(cals))
               ELSE Append(calories, [user_id |-> SessionUser,
                                      calories |-> NumberOf(cals),
                                      date |-> selected_date])

\* a confirmed update that leaves the calorie row of the date as it is
weight_entry_weight_only(selected_date, weight, cals, reply) ==
    LET weight_entry_found == HasEntry(weights, SessionUser, selected_date)
        calorie_entry_found == HasEntry(calories, SessionUser, selected_date)
    IN  IF (weight_entry_found \/ calorie_entry_found) /\ reply = "No"
        THEN UNCHANGED <<weights, calories>>
        ELSE /\ weights' =
                    Append(weights, [user_id |-> SessionUser,
                                     weight |-> NumberOf(weight),
                                     date |-> selected_date])
             /\ calories' =
                    IF calorie_entry_found
                    THEN calories
                    ELSE Append(calories, [user_id |-> SessionUser,
                                           calories |-> NumberOf(cals),
                                           date |-> selected_date])

\* weight_entry(self, selected_date, weight, calories); reply is the answer
\* to "Data already exists for this date. Do you want to update it?"
weight_entry(selected_date, weight, cals, reply) ==
    LET weight_entry_found == HasEntry(weights, SessionUser, selected_date)
        calorie_entry_found == HasEntry(calories, SessionUser, selected_date)
    IN  IF (weight_entry_found \/ calorie_entry_found) /\ reply = "No"
        THEN UNCHANGED <<weights, calories>>
        ELSE /\ weights' =
                    IF weight_entry_found
                    THEN UpdateWeights(SessionUser, selected_date, NumberOf(weight))
                    ELSE Append(weights, [user_id |-> SessionUser,
                                          weight |-> NumberOf(weight),
                                          date |-> selected_date])
             /\ calories' =
                    IF calorie_entry_found
                    THEN UpdateCalories(SessionUser, selected_date, NumberOf(cals))
                    ELSE Append(calories, [user_id |-> SessionUser,
                                           calories |-> NumberOf(cals),
                                           date |-> selected_date])

\* MainWindow.submit_data with both fields filled in
submit_data(day, weight, cals, reply) ==
    /\ weight # "" /\ cals # ""
    /\ RowsOf(weights, SessionUser) < MaxRows
           \/ HasEntry(weights, SessionUser, FormDate(day))
    /\ RowsOf(calories, SessionUser) < MaxRows
           \/ HasEntry(calories, SessionUser, FormDate(day))
    /\ weight_entry(FormDate(day), weight, cals, reply)
    /\ repeat' = IF weights' = weights /\ calories' = calories THEN repeat ELSE 0
    /\ UNCHANGED <<users, call, outcome, tw, th, trend, aside>>

\* submit_updated_info(self, age, height, activity_level): UPDATE users SET
\* age, height, activity_level WHERE id = self.user_id; the age and height
\* columns are INTEGER
submit_updated_info(age, height, activity_level) ==
    users' = [i \in 1..Len(users) |->
                 IF users[i].id = SessionUser
                 THEN [users[i] EXCEPT !.age = NumberOf(age)[1],
                                       !.height = NumberOf(height)[1],
                                       !.activity_level = activity_level]
                 ELSE users[i]]

\* MainWindow.submit_user_info with the fields filled in: the text of the
\* picked item is passed as the activity level
submit_user_info(age, height, label) ==
    /\ age # "" /\ height # "" /\ label # ""
    /\ submit_updated_info(age, height, label)
    /\ repeat' = IF users' = users THEN repeat ELSE 0
    /\ UNCHANGED <<weights, calories, call, outcome, tw, th, trend, aside>>

\* a calculation that adds a row to the weights table
calculate_needs_logging ==
    /\ call' = <<SessionUser, -1>>
    /\ repeat' = IF repeat < MaxRepeat THEN repeat + 1 ELSE repeat
    /\ RowsOf(weights, SessionUser) < MaxRows
    /\ weights' = Append(weights, [user_id |-> SessionUser, weight |-> Rat(150, 1),
                                    date |-> IsoDate(1)])
    /\ UNCHANGED <<users, calories, tw, th, trend, aside>>
    /\ outcome' = calculate_caloric_needs(SessionUser, -1)

\* a calculation that answers only the first time
calculate_needs_once ==
    /\ call' = <<SessionUser, -1>>
    /\ repeat' = IF repeat < MaxRepeat THEN repeat + 1 ELSE repeat
    /\ UNCHANGED <<users, weights, calories, tw, th, trend, aside>>
    /\ outcome' = IF repeat >= 1 THEN Raise("No data found for the user.")
                  ELSE calculate_caloric_needs(SessionUser, -1)

\* MainWindow.calculate_needs: calculate_caloric_needs(self.conn, self.user_id)
calculate_needs ==
    /\ call' = <<SessionUser, -1>>
    /\ repeat' = IF repeat < MaxRepeat THEN repeat + 1 ELSE repeat
    /\ UNCHANGED <<users, weights, calories, tw, th, trend, aside>>
    /\ outcome' = calculate_caloric_needs(SessionUser, -1)

\* what another user entered through the form on the 5th
OtherEntryWeight == [user_id |-> 2, weight |-> Rat(180, 1), date |-> FormDate(5)]
OtherEntryCalories == [user_id |-> 2, calories |-> Rat(2000, 1), date |-> FormDate(5)]

\* the main window just opened for a user who has registered
\* (RegisterWindow.register stores the level "sedentary") and has no data
\* yet; another user has a day of data
InitApp ==
    /\ users = <<[id |-> SessionUser, sex |-> "Male", age |-> 30, height |-> 70,
                  activity_level |-> "sedentary"], OtherUser>>
    /\ weights = <<OtherEntryWeight>>
    /\ calories = <<OtherEntryCalories>>
    /\ call = NoCall
    /\ outcome = NoOutcome
    /\ tw = << >>
    /\ th = 7
    /\ trend = NoOutcome
    /\ repeat = 0
    /\ AsideIdle

NextApp ==
    \/ \E day \in EntryDays, weight \in WeightTexts, cals \in CalorieTexts,
          reply \in {"Yes", "No"} : submit_data(day, weight, cals, reply)
    \/ \E file \in CsvFiles : import_data(file)
    \/ \E age \in AgeTexts, height \in HeightTexts, label \in PickedLabels :
          submit_user_info(age, height, label)
    \/ calculate_needs

SpecApp == InitApp /\ [][NextApp]_vars

\* a session in which data is entered through the form only
NextForm ==
    \/ \E day \in EntryDays, weight \in WeightTexts, cals \in EntryCalorieTexts,
          reply \in {"Yes", "No"} : submit_data(day, weight, cals, reply)
    \/ calculate_needs

SpecForm == InitApp /\ [][NextForm]_vars

\* a session in which data is entered and imported, and nothing else is done
NextEntry ==
    \/ \E day \in EntryDays, weight \in WeightTexts, cals \in EntryCalorieTexts,
          reply \in {"Yes", "No"} : submit_data(day, weight, cals, reply)
    \/ \E file \in CsvFiles : import_data(file)

SpecEntry == InitApp /\ [][NextEntry]_vars

----------------------------------------------------------------------------
(* CSV export (calculate.py, export_db_to_csv) and the import of the file  *)
(* it wrote                                                                *)

\* the cell csv.writer writes for a float, for an int, for a date text and
\* for None
FloatText(x) ==
    CASE x = Rat(150, 1) -> "150.0"
      [] x = Rat(151, 1) -> "151.0"

IntText(x) ==
    CASE x = Rat(2000, 1) -> "2000"
      [] x = Rat(2500, 1) -> "2500"

DateText(date) ==
    CASE date = IsoDate(5) -> "2024-01-05"
      [] date = IsoDate(10) -> "2024-01-10"

NoneText == ""

\* list.insert(index, value): at the end when index is past the end
ListInsert(list, index, value) ==
    LET k == IF index > Len(list) THEN Len(list) ELSE index
    IN  SubSeq(list, 1, k) \o <<value>> \o SubSeq(list, k + 1, Len(list))

\* data[date].insert(index, value) on the defaultdict, whose entries are
\* kept in the order in which their dates first occur
DataInsert(data, date, index, value) ==
    IF \E i \in 1..Len(data) : data[i].date = date
    THEN [i \in 1..Len(data) |->
             IF data[i].date = date
             THEN [data[i] EXCEPT !.values = ListInsert(@, index, value)]
             ELSE data[i]]
    ELSE Append(data, [date |-> date,
                       values |-> ListInsert(<<NoneText, NoneText>>, index, value)])

\* for date, weight in weights: data[date].insert(1, weight)
RECURSIVE InsertWeights(_, _)
InsertWeights(data, rows) ==
    IF rows = << >> THEN data
    ELSE InsertWeights(DataInsert(data, rows[1].date, 1, FloatText(rows[1].weight)),
                       Tail(rows))

\* for date, calorie in calories: data[date].insert(2, calorie)
RECURSIVE InsertCalories(_, _)
InsertCalories(data, rows) ==
    IF rows = << >> THEN data
    ELSE InsertCalories(DataInsert(data, rows[1].date, 2, IntText(rows[1].calories)),
                        Tail(rows))

\* the lines export_db_to_csv writes for a user: the header, then one line
\* per date
export_db_to_csv(user_id) ==
    LET data == InsertCalories(InsertWeights(<< >>, WhereUser(weights, user_id)),
                               WhereUser(calories, user_id))
    IN  <<<<"Date", "Weight", "Calories">>>> \o
        [i \in 1..Len(data) |-> <<DateText(data[i].date)>> \o data[i].values]

\* MainWindow.export_data
export_data ==
    /\ csv' = export_db_to_csv(SessionUser)
    /\ restored' = NoOutcome
    /\ UNCHANGED <<users, weights, calories, call, outcome, tw, th, trend,
                   repeat, summary_args, summary>>

\* csv.DictReader: the first line names the fields, a field a line is too
\* short for reads as empty, and cells beyond the named fields are set aside
DictReader(lines) ==
    LET Field(name, line) ==
            IF \E k \in 1..Len(lines[1]) : lines[1][k] = name /\ k <= Len(line)
            THEN line[CHOOSE k \in 1..Len(lines[1]) : lines[1][k] = name]
            ELSE ""
    IN  [i \in 1..(Len(lines) - 1) |->
            CsvRow(Field("Date", lines[i + 1]), Field("Weight", lines[i + 1]),
                   Field("Calories", lines[i + 1]))]

\* the texts float() and int() accept, among the texts of the model
FloatParses(text) ==
    text \in {"150", "151", "150.0", "151.0", "2000", "2500"}

IntParses(text) == text \in {"150", "151", "2000", "2500"}

\* import_csv_to_db raises ValueError at a cell it cannot convert
ImportFails(file) ==
    \E i \in 1..Len(file) :
        \/ file[i].Weight # "" /\ ~FloatParses(file[i].Weight)
        \/ file[i].Calories # "" /\ ~IntParses(file[i].Calories)

\* import_csv_to_db of the exported file into a database with no rows
import_exported ==
    /\ csv # NoFile
    /\ restored = NoOutcome
    /\ restored' =
           LET file == DictReader(csv)
           IN  IF ImportFails(file)
               THEN Raise("ValueError")
               ELSE [kind |-> "done",
                     weights |-> ImportedWeights(file, SessionUser),
                     calories |-> ImportedCalories(file, SessionUser)]
    /\ UNCHANGED <<users, weights, calories, call, outcome, tw, th, trend,
                   repeat, summary_args, summary, csv>>

\* the rows import_csv_to_db can have stored for the session's user
ExportWeightRows ==
    {[user_id |-> SessionUser, weight |-> w, date |-> IsoDate(d)] :
        w \in {Rat(150, 1), Rat(151, 1)}, d \in EntryDays}

ExportCalorieRows ==
    {[user_id |-> SessionUser, calories |-> Rat(2000, 1), date |-> IsoDate(5)],
     [user_id |-> SessionUser, calories |-> Rat(2500, 1), date |-> IsoDate(10)]}

\* the tables of a user who has imported up to MaxRows rows into each
InitCsv ==
    /\ users = <<[id |-> SessionUser, sex |-> "Male", age |-> 30, height |-> 70,
                  activity_level |-> "sedentary"]>>
    /\ \E n \in 0..MaxRows : weights \in [1..n -> ExportWeightRows]
    /\ \E n \in 0..MaxRows : calories \in [1..n -> ExportCalorieRows]
    /\ call = NoCall
    /\ outcome = NoOutcome
    /\ tw = << >>
    /\ th = 7
    /\ trend = NoOutcome
    /\ repeat = 0
    /\ AsideIdle

NextCsv ==
    \/ export_data
    \/ import_exported

SpecCsv == InitCsv /\ [][NextCsv]_vars

---------------------------------------------------------------------------
(* What the properties below speak of                                      *)

Called == call # NoCall

IsError == outcome.kind = "error"

IsResult == outcome.kind = "result"

\* the number of rows a table holds for a user
Stored(table, user_id) ==
    Cardinality({i \in 1..Len(table) : table[i].user_id = user_id})

\* the number of entries a call fetches: all of them, or at most period_days
\* of them when period_days is positive
Fetched(table) ==
    LET n == Stored(table, call[1])
    IN  IF call[2] > 0 /\ call[2] < n THEN call[2] ELSE n

NoProfile == \A i \in 1..Len(users) : users[i].id # call[1]

Profile == CHOOSE r \in {users[i] : i \in 1..Len(users)} : r.id = call[1]

RecognizedLevels ==
    {"sedentary", "lightly active", "moderately active", "very active",
     "extremely active"}

MismatchMessage == "Weights and calories lists must have the same length."

NoDataMessage == "No data found for the user."

\* the fetched histories of the call, most recent day first
CallWeights ==
    LET rows == FetchWeights(call[1], call[2])
    IN  [i \in 1..Len(rows) |-> rows[i].weight]

CallCalories ==
    LET rows == FetchCalories(call[1], call[2])
    IN  [i \in 1..Len(rows) |-> rows[i].calories]

\* the weekly weight-change rate of the call
Rate == avg_weight_change(CallWeights)

SixFields == {"BMR", "Maintenance", "Gain", "Lose", "Recommendation", "Warning"}

---------------------------------------------------------------------------
(* C1..C5: the failure modes of calculate_caloric_needs                    *)

\* C1: a call that fetches a different number of weight entries than of
\* calorie entries fails with an error and returns no result.
C1_LengthMismatchFails ==
    (Called /\ Fetched(weights) # Fetched(calories))
        => (IsError /\ "value" \notin DOMAIN outcome)

\* three weight entries against two calorie entries: the call has failed
C1_Witness ==
    /\ Called
    /\ Fetched(weights) = 3
    /\ Fetched(calories) = 2
    /\ IsError
    /\ outcome.error = MismatchMessage

\* C2: a call for which the weight history or the calorie history is empty
\* fails with one of the two validation errors, so it never gets to index
\* weights[0] or calories[0] or to divide by a zero length.
C2_EmptyHistoryFails ==
    (Called /\ (Fetched(weights) = 0 \/ Fetched(calories) = 0))
        => (IsError /\ outcome.error \in {MismatchMessage, NoDataMessage})

\* both histories empty: the call has failed with "No data found"
C2_Witness ==
    /\ Called
    /\ Fetched(weights) = 0
    /\ Fetched(calories) = 0
    /\ IsError
    /\ outcome.error = NoDataMessage

C4_MissingProfileFails ==
    (Called /\ NoProfile) => IsError

\* no users row, two weight and two calorie entries: the call has failed
\* with "User data not found."
C4_Witness ==
    /\ Called
    /\ NoProfile
    /\ Fetched(weights) = 2
    /\ Fetched(calories) = 2
    /\ IsError
    /\ outcome.error = "User data not found."

\* C5: every call ends either with an error and no value, or with a result
\* that has all six fields.
C5_ErrorOrCompleteResult ==
    Called =>
        \/ IsError /\ DOMAIN outcome = {"kind", "error"}
        \/ IsResult /\ DOMAIN outcome = {"kind", "value"}
                    /\ DOMAIN outcome.value = SixFields

\* a call that has returned a result
C5_Witness ==
    /\ Called
    /\ IsResult
    /\ DOMAIN outcome.value = SixFields

---------------------------------------------------------------------------
(* C6..C9: the result of calculate_caloric_needs                           *)

\* C6: when the weekly rate lies in [-0.1, 0.1], endpoints included, the
\* returned Maintenance is the most recent day's calories rounded, Gain and
\* Lose are 250 above and 500 below that value, and the Recommendation is
\* the fixed maintaining message.
C6_MaintainingOverridesMaintenance ==
    (Called /\ IsResult /\ RLeq(Rat(-1, 10), Rate) /\ RLeq(Rate, Rat(1, 10))) =>
        /\ outcome.value.Maintenance = round(CallCalories[1])
        /\ outcome.value.Gain = round(CallCalories[1]) + 250
        /\ outcome.value.Lose = round(CallCalories[1]) - 500
        /\ outcome.value.Recommendation = MaintainingText

\* the rate is exactly 0.1, the most recent day has 2500.5 kcal and an older
\* day 2000 kcal: Maintenance is 2500, not the average
C6_Witness ==
    /\ Called
    /\ IsResult
    /\ Rate = Rat(1, 10)
    /\ CallCalories = <<Rat(5001, 2), Rat(2000, 1)>>
    /\ outcome.value.Maintenance = 2500
    /\ outcome.value.Gain = 2750
    /\ outcome.value.Lose = 2000
    /\ outcome.value.Recommendation = MaintainingText

\* C7: the Warning is the losing-too-rapidly text exactly when the weekly
\* rate is below -1.5, the gaining-too-rapidly text exactly when it is above
\* 0.75, and empty otherwise, the two thresholds themselves included.
C7_RapidChangeWarning ==
    (Called /\ IsResult) =>
        /\ outcome.value.Warning = LosingWarning <=> RLess(Rate, Rat(-3, 2))
        /\ outcome.value.Warning = GainingWarning <=> RLess(Rat(3, 4), Rate)
        /\ outcome.value.Warning = ""
               <=> (RLeq(Rat(-3, 2), Rate) /\ RLeq(Rate, Rat(3, 4)))

\* the rate is exactly -1.5: the losing recommendation with no warning
C7_Witness ==
    /\ Called
    /\ IsResult
    /\ Rate = Rat(-3, 2)
    /\ outcome.value.Recommendation[1] = "You are losing weight at "
    /\ outcome.value.Warning = ""

\* C8: below -0.1 the Recommendation is the losing message showing the
\* absolute value of the rate to two decimals; above 0.1 it is the gaining
\* message showing the rate to two decimals.
C8_RateShownAsAbsolute ==
    (Called /\ IsResult) =>
        /\ RLess(Rate, Rat(-1, 10))
               => outcome.value.Recommendation = LosingText(Format2f(RNeg(Rate)))
        /\ RLess(Rat(1, 10), Rate)
               => outcome.value.Recommendation = GainingText(Format2f(Rate))

---------------------------------------------------------------------------
(* C10: calculate_weight_trend                                             *)

Least(ws) ==
    CHOOSE x \in {ws[i] : i \in 1..Len(ws)} :
        \A i \in 1..Len(ws) : RLeq(x, ws[i])

Greatest(ws) ==
    CHOOSE x \in {ws[i] : i \in 1..Len(ws)} :
        \A i \in 1..Len(ws) : RLeq(ws[i], x)

---------------------------------------------------------------------------
(* C11..C13: calculate_weight_trend and its half-life                      *)

\* C11: for a weight sequence of exactly one element and a positive
\* half-life the trend is that element.
C11_SingleSampleUnchanged ==
    (trend.kind = "result" /\ Len(tw) = 1 /\ th > 0) => trend.value = tw[1]

\* the single weight 150.05 with half-life 14: the trend is 150.05
C11_Witness ==
    /\ trend.kind = "result"
    /\ tw = <<Rat(3001, 20)>>
    /\ th = 14
    /\ trend.value = Rat(3001, 20)

C13_NonPositiveHalfLifeFails ==
    (trend.kind # "none" /\ th <= 0) =>
        (trend.kind = "error" /\ "value" \notin DOMAIN trend)

---------------------------------------------------------------------------
(* C14..C18: the calculation among the data-entry operations               *)

\* the tables as the last call from the main window read them: the call was
\* made after their last change
CallIsCurrent == repeat >= 1

\* the calendar day a stored date text stands for
DayOf(text) == IF Len(text) = 1 THEN text[1] ELSE 10 * text[1] + text[2]

\* the calendar days of the entries a call for the session's user fetches,
\* in the order it fetches them
WeightDays ==
    LET rows == FetchWeights(SessionUser, -1)
    IN  [i \in 1..Len(rows) |-> DayOf(rows[i].date)]

CalorieDays ==
    LET rows == FetchCalories(SessionUser, -1)
    IN  [i \in 1..Len(rows) |-> DayOf(rows[i].date)]

Descending(days) == \A i \in 1..(Len(days) - 1) : days[i] >= days[i + 1]

OneRowPerDate(table) ==
    \A i, j \in 1..Len(table) :
        (table[i].user_id = table[j].user_id /\ table[i].date = table[j].date)
            => i = j

C15_CalculationLeavesTables ==
    [][calculate_needs => UNCHANGED <<users, weights, calories>>]_vars

\* a call on two weight rows and one calorie row has raised an error, and
\* the rows are still there
C15_Witness ==
    /\ CallIsCurrent
    /\ IsError
    /\ RowsOf(weights, SessionUser) = 2
    /\ RowsOf(calories, SessionUser) = 1
    /\ Len(users) = 2

\* C16: a call fails whenever the weight entries and the calorie entries it
\* fetches are not for the same calendar days in the same order.
C16_DifferentDatesFail ==
    (CallIsCurrent /\ WeightDays # CalorieDays) => IsError

\* C17: the weights table and the calories table hold at most one row for
\* a user and a date.
C17_OneRowPerUserAndDate ==
    OneRowPerDate(weights) /\ OneRowPerDate(calories)

\* C18: the entries a call fetches are in descending order of their
\* calendar days, so the first weight and the first calories are those of
\* the latest day logged.
C18_FetchedNewestFirst ==
    CallIsCurrent => (Descending(WeightDays) /\ Descending(CalorieDays))

---------------------------------------------------------------------------
(* C19, C20: two worked cases of calculate_caloric_needs                   *)

\* C19: with the single weight 150 and the single calorie entry 2000 and a
\* valid profile, the weekly rate is 0, the Recommendation is the
\* maintaining message, the Warning is empty, and Maintenance, Gain and
\* Lose are 2000, 2250 and 1500.
C19_OneDayOfData ==
    (/\ Called
     /\ ~NoProfile
     /\ Profile.activity_level \in RecognizedLevels
     /\ CallWeights = <<Rat(150, 1)>>
     /\ CallCalories = <<Rat(2000, 1)>>) =>
        /\ IsResult
        /\ Rate = RInt(0)
        /\ outcome.value.Recommendation = MaintainingText
        /\ outcome.value.Warning = ""
        /\ outcome.value.Maintenance = 2000
        /\ outcome.value.Gain = 2250
        /\ outcome.value.Lose = 1500

\* the case for the sedentary man of 30 and 70 inches: BMR 1931
C19_Witness ==
    /\ Called
    /\ ~NoProfile
    /\ Profile.sex = "Male"
    /\ Profile.activity_level = "sedentary"
    /\ Stored(weights, call[1]) = 1
    /\ CallWeights = <<Rat(150, 1)>>
    /\ CallCalories = <<Rat(2000, 1)>>
    /\ IsResult
    /\ outcome.value.BMR = 1931
    /\ outcome.value.Maintenance = 2000
    /\ outcome.value.Gain = 2250
    /\ outcome.value.Lose = 1500

\* the histories of the week as a call fetches them, most recent day first
WeekFetched ==
    /\ CallWeights = <<Rat(180, 1), Rat(181, 1), Rat(182, 1), Rat(183, 1),
                        Rat(184, 1), Rat(185, 1), Rat(186, 1)>>
    /\ CallCalories = <<Rat(2500, 1), Rat(2500, 1), Rat(2500, 1), Rat(2500, 1),
                         Rat(2500, 1), Rat(2500, 1), Rat(2500, 1)>>

\* C20: for a man of 30 and 70 inches with the weights 180, 181, ..., 186
\* (most recent first) and 2500 kcal every day, BMR is computed from the
\* weight 180, the weekly rate is positive and the Recommendation is the
\* gaining message.
C20_WeekScenario ==
    (/\ Called
     /\ ~NoProfile
     /\ Lower(Profile.sex) = "male" /\ Profile.age = 30 /\ Profile.height = 70
     /\ Profile.activity_level \in RecognizedLevels
     /\ WeekFetched) =>
        /\ IsResult
        /\ outcome.value.BMR =
               round(RMul(bmr(Rat(180, 1), "male", 30, 70),
                          pal_dict[Profile.activity_level]))
        /\ RLess(RInt(0), Rate)
        /\ outcome.value.Recommendation = GainingText(Format2f(Rate))

\* the case for the sedentary level: BMR 2098, the rate shown is 2.44
C20_Witness ==
    /\ Called
    /\ ~NoProfile
    /\ Profile.sex = "Male"
    /\ Profile.activity_level = "sedentary"
    /\ WeekFetched
    /\ IsResult
    /\ outcome.value.BMR = 2098
    /\ outcome.value.Recommendation = GainingText(244)
    /\ outcome.value.Warning = GainingWarning

---------------------------------------------------------------------------
(* C22, C29, C30: the maintenance value, the two messages, the errors      *)

\* the weekly rate written out: (trend - weights[0]) / (len(weights) / 7),
\* with the trend of half-life 7
WrittenRate ==
    RDiv(RSub(calculate_weight_trend(CallWeights, 7), CallWeights[1]),
         RDiv(RInt(Len(CallWeights)), RInt(7)))

AverageCalories == RDiv(RSum(CallCalories), RInt(Len(CallCalories)))

\* C22: when the weekly rate is outside [-0.1, 0.1] the returned
\* Maintenance is round(average(calories) - rate * 3500); with the trend
\* above the current weight it is below the average intake, with the trend
\* below the current weight it is above the average intake.
C22_MaintenanceFromEnergyBalance ==
    (/\ Called
     /\ IsResult
     /\ ~(RLeq(Rat(-1, 10), WrittenRate) /\ RLeq(WrittenRate, Rat(1, 10)))) =>
        /\ outcome.value.Maintenance =
               round(RSub(AverageCalories, RMul(WrittenRate, RInt(3500))))
        /\ RLess(CallWeights[1], calculate_weight_trend(CallWeights, 7))
               => RLess(RInt(outcome.value.Maintenance), AverageCalories)
        /\ RLess(calculate_weight_trend(CallWeights, 7), CallWeights[1])
               => RLess(AverageCalories, RInt(outcome.value.Maintenance))

\* three days with the trend below the current weight and an average intake
\* that is no integer: Maintenance is above the average
C22_Witness ==
    /\ Called
    /\ IsResult
    /\ Len(CallWeights) = 3
    /\ RLess(WrittenRate, Rat(-1, 10))
    /\ AverageCalories[2] # 1
    /\ RLess(AverageCalories, RInt(outcome.value.Maintenance))
    /\ outcome.value.Maintenance =
           round(RSub(AverageCalories, RMul(WrittenRate, RInt(3500))))

RecommendationKinds ==
    {MaintainingText[1], "You are losing weight at ", "You are gaining weight at "}

\* C29: in every result the Recommendation is one of the maintaining, the
\* losing and the gaining message and never empty; the losing-too-rapidly
\* Warning comes only with the losing message, the gaining-too-rapidly
\* Warning only with the gaining message, and the maintaining message only
\* with an empty Warning.
C29_RecommendationAndWarningAgree ==
    (Called /\ IsResult) =>
        /\ outcome.value.Recommendation # << >>
        /\ outcome.value.Recommendation[1] \in RecommendationKinds
        /\ outcome.value.Warning = LosingWarning
               => outcome.value.Recommendation[1] = "You are losing weight at "
        /\ outcome.value.Warning = GainingWarning
               => outcome.value.Recommendation[1] = "You are gaining weight at "
        /\ outcome.value.Recommendation = MaintainingText
               => outcome.value.Warning = ""

\* a result with the losing message and the losing-too-rapidly Warning
C29_Witness ==
    /\ Called
    /\ IsResult
    /\ RLess(WrittenRate, Rat(-3, 2))
    /\ outcome.value.Recommendation[1] = "You are losing weight at "
    /\ outcome.value.Warning = LosingWarning

\* C30: the error of a call is the first that applies of: length mismatch,
\* no data, user not found, invalid activity level.  With exactly one
\* history empty it is the length mismatch, and "No data found" is raised
\* only when both histories are empty.
C30_FirstErrorInOrder ==
    Called =>
        /\ Fetched(weights) # Fetched(calories)
               => (IsError /\ outcome.error = MismatchMessage)
        /\ (Fetched(weights) = 0 /\ Fetched(calories) = 0)
               => (IsError /\ outcome.error = NoDataMessage)
        /\ (Fetched(weights) = Fetched(calories) /\ Fetched(weights) > 0 /\ NoProfile)
               => (IsError /\ outcome.error = "User data not found.")
        /\ (/\ Fetched(weights) = Fetched(calories)
            /\ Fetched(weights) > 0
            /\ ~NoProfile
            /\ Profile.activity_level \notin RecognizedLevels)
               => (IsError /\ outcome.error = "Invalid activity level.")
        /\ (IsError /\ outcome.error = NoDataMessage)
               => (Fetched(weights) = 0 /\ Fetched(calories) = 0)

\* no users row, two weight entries and no calorie entry: the error is the
\* length mismatch
C30_Witness ==
    /\ Called
    /\ NoProfile
    /\ Fetched(weights) = 2
    /\ Fetched(calories) = 0
    /\ IsError
    /\ outcome.error = MismatchMessage

---------------------------------------------------------------------------
(* C23, C24: the BMR field                                                 *)

\* the activity factors with the levels spelt as the keys of the code
FactorOf ==
    ("sedentary" :> Rat(12, 10)) @@ ("lightly active" :> Rat(1375, 1000))
    @@ ("moderately active" :> Rat(155, 100)) @@ ("very active" :> Rat(1725, 1000))
    @@ ("extremely active" :> Rat(19, 10))

\* the same factors with the levels spelt with underscores
FactorOfUnderscored ==
    ("sedentary" :> Rat(12, 10)) @@ ("lightly_active" :> Rat(1375, 1000))
    @@ ("moderately_active" :> Rat(155, 100)) @@ ("very_active" :> Rat(1725, 1000))
    @@ ("extremely_active" :> Rat(19, 10))

\* the base BMR of the call: the formula for the most recent weight and the
\* profile, before the activity factor
BaseBmr == bmr(CallWeights[1], Profile.sex, Profile.age, Profile.height)

HasData == Fetched(weights) = Fetched(calories) /\ Fetched(weights) > 0

AgeAmount(age) ==
    IF age <= 60 THEN RMul(Rat(196, 100), RInt(age))
    ELSE RMul(Rat(49, 10), RInt(age - 60))

SexAmount(sex) ==
    IF sex \in {"male", "Male"} THEN RInt(0) ELSE Rat(2138, 10)

\* C24: the BMR field is computed with 1.96 * age subtracted for an age of
\* 60 or less and 4.9 * (age - 60) for an age above 60, and with 0
\* subtracted for the sex "male" or "Male" and 213.8 for "Female".
C24_AgeAndSexTerms ==
    (Called /\ IsResult) =>
        LET cm == RMul(RInt(Profile.height), Rat(254, 100))
            before == RAdd(RMul(Rat(1296, 10), Pow055Kg(CallWeights[1])),
                           Milli(RMul(Rat(11, 1000), RMul(cm, cm))))
            base == RSub(RSub(before, AgeAmount(Profile.age)), SexAmount(Profile.sex))
        IN  outcome.value.BMR = round(RMul(base, pal_dict[Profile.activity_level]))

\* the man of exactly 60 and 70 inches with 150 lb, sedentary: 1.96 * 60 is
\* subtracted and nothing for the sex, which gives 1860
C24_Witness ==
    /\ Called
    /\ IsResult
    /\ Profile.sex = "Male"
    /\ Profile.age = 60
    /\ Profile.activity_level = "sedentary"
    /\ CallWeights[1] = Rat(150, 1)
    /\ outcome.value.BMR = 1860

---------------------------------------------------------------------------
(* C21: trend_summary                                                      *)

\* which of the three descriptions a text gives
SummaryKind(text) ==
    CASE text[4] = "you are maintaining your weight." -> "maintaining"
      [] text[4] = "you are gaining weight at " -> "gaining"
      [] text[4] = "you are losing weight at " -> "losing"
      [] OTHER -> "none"

\* which of the three messages a Recommendation is
RecommendationKind(rec) ==
    IF rec = MaintainingText THEN "maintaining"
    ELSE IF rec # << >> /\ rec[1] = "You are gaining weight at " THEN "gaining"
    ELSE IF rec # << >> /\ rec[1] = "You are losing weight at " THEN "losing"
    ELSE "none"

\* C21: the summary says maintaining exactly when |rate| <= delta, gaining
\* with the rate exactly when rate > delta, losing with the absolute value
\* of the rate exactly when rate < -delta; for delta = 0.1 this is the
\* classification calculate_caloric_needs makes of the same rate.
C21_SummaryClassification ==
    summary.kind = "result" =>
        LET rate == summary_args[1]
            delta_ == summary_args[3]
            text == summary.value
        IN  /\ SummaryKind(text) \in {"maintaining", "gaining", "losing"}
            /\ SummaryKind(text) = "maintaining" <=> RLeq(RAbs(rate), delta_)
            /\ SummaryKind(text) = "gaining" <=> RLess(delta_, rate)
            /\ SummaryKind(text) = "losing" <=> RLess(rate, RNeg(delta_))
            /\ SummaryKind(text) = "gaining" => text[5] = Format2f(rate)
            /\ SummaryKind(text) = "losing" => text[5] = Format2f(RNeg(rate))
            /\ delta_ = delta =>
                   SummaryKind(text) =
                       RecommendationKind(adjust(rate, <<summary_args[2]>>).Recommendation)

\* a rate of exactly -0.1 with delta 0.1 is maintaining, as in the
\* calculation
C21_Witness ==
    /\ summary.kind = "result"
    /\ summary_args[1] = Rat(-1, 10)
    /\ summary_args[3] = Rat(1, 10)
    /\ SummaryKind(summary.value) = "maintaining"
    /\ RecommendationKind(adjust(Rat(-1, 10), <<summary_args[2]>>).Recommendation)
           = "maintaining"

\* the profile row of the session's user
SessionProfile ==
    CHOOSE r \in {users[i] : i \in 1..Len(users)} : r.id = SessionUser

\* C25: after registration and after every profile update the stored
\* activity level of the session's user is a key of pal_dict, so no
\* calculation for that user ends with 'Invalid activity level.'.
C25_StoredLevelRecognized ==
    /\ SessionProfile.activity_level \in RecognizedLevels
    /\ CallIsCurrent =>
           ~(IsError /\ outcome.error = "Invalid activity level.")

\* the date texts of the rows a table holds for the session's user
SessionDates(table) ==
    {table[i].date : i \in {j \in 1..Len(table) : table[j].user_id = SessionUser}}

\* C26: when data is entered only through the form, the weight rows and the
\* calorie rows of the user are for the same dates and equal in number, and
\* no calculation ends with the error of the equal-length check.
C26_FormEntriesPaired ==
    /\ SessionDates(weights) = SessionDates(calories)
    /\ RowsOf(weights, SessionUser) = RowsOf(calories, SessionUser)
    /\ CallIsCurrent => ~(IsError /\ outcome.error = MismatchMessage)

\* two days entered through the form, the first of them entered twice, and
\* a calculation made after that
C26_Witness ==
    /\ CallIsCurrent
    /\ IsResult
    /\ SessionDates(weights) = {FormDate(5), FormDate(10)}
    /\ RowsOf(calories, SessionUser) = 2
    /\ \E i \in 1..Len(weights) :
           /\ weights[i].user_id = SessionUser
           /\ weights[i].date = FormDate(5)
           /\ weights[i].weight = Rat(151, 1)
    /\ \E i \in 1..Len(calories) :
           /\ calories[i].user_id = SessionUser
           /\ calories[i].date = FormDate(5)
           /\ calories[i].calories = Rat(2500, 1)
    /\ \E i \in 1..Len(weights) :
           /\ weights[i].user_id = SessionUser
           /\ weights[i].date = FormDate(10)
           /\ weights[i].weight = Rat(150, 1)
    /\ \E i \in 1..Len(calories) :
           /\ calories[i].user_id = SessionUser
           /\ calories[i].date = FormDate(10)
           /\ calories[i].calories = Rat(2000, 1)

\* the rows of a table that are not a row of the session's user for the date
KeptRows(table, date) ==
    SelectSeq(table, LAMBDA r : ~(r.user_id = SessionUser /\ r.date = date))

\* a table before and after a step differs only in rows of the session's
\* user for the date: the other rows are the same, in the same places
OnlyEntryChanged(before, after, date) ==
    /\ Len(after) >= Len(before)
    /\ \A i \in 1..Len(before) :
           (before[i].user_id = SessionUser /\ before[i].date = date)
               \/ after[i] = before[i]
    /\ \A i \in (Len(before) + 1)..Len(after) :
           after[i].user_id = SessionUser /\ after[i].date = date

\* C28: when an entry exists for the selected date, entering data with the
\* answer No changes no table, and with the answer Yes changes or inserts
\* only rows of that date for the session's user.
C28_ConfirmedUpdateOnly ==
    [][\A day \in EntryDays, weight \in WeightTexts, cals \in EntryCalorieTexts,
          reply \in {"Yes", "No"} :
          (/\ HasEntry(weights, SessionUser, FormDate(day))
                 \/ HasEntry(calories, SessionUser, FormDate(day))
           /\ submit_data(day, weight, cals, reply))
              => /\ reply = "No" => UNCHANGED <<users, weights, calories>>
                 /\ reply = "Yes" =>
                        /\ OnlyEntryChanged(weights, weights', FormDate(day))
                        /\ OnlyEntryChanged(calories, calories', FormDate(day))
                        /\ UNCHANGED users]_vars

\* a weight of the 5th and calories of the 10th were imported, and the 10th
\* was then entered through the form and confirmed: the calories of the
\* 10th are replaced and its weight is added, while the row of the 5th and
\* the rows of the other user stay
C28_Witness ==
    /\ WhereUser(weights, SessionUser) =
           <<[user_id |-> SessionUser, weight |-> Rat(150, 1), date |-> IsoDate(5)],
             [user_id |-> SessionUser, weight |-> Rat(151, 1), date |-> IsoDate(10)]>>
    /\ WhereUser(calories, SessionUser) =
           <<[user_id |-> SessionUser, calories |-> Rat(2500, 1), date |-> IsoDate(10)]>>
    /\ WhereUser(weights, 2) = <<OtherEntryWeight>>
    /\ WhereUser(calories, 2) = <<OtherEntryCalories>>

\* the records a table holds for the session's user, as calendar day and value
RecordsOf(rows, column) ==
    {<<DayOf(rows[i].date), rows[i][column]>> : i \in 1..Len(rows)}

\* a line of the exported file read under the header: the date, a weight
\* stored for that date or nothing when there is none, and likewise calories
UnderItsColumns(row) ==
    LET ws == SelectSeq(WhereUser(weights, SessionUser),
                        LAMBDA r : DateText(r.date) = row.Date)
        cs == SelectSeq(WhereUser(calories, SessionUser),
                        LAMBDA r : DateText(r.date) = row.Date)
    IN  /\ ws # << >> \/ cs # << >>
        /\ IF ws = << >> THEN row.Weight = ""
           ELSE \E i \in 1..Len(ws) : row.Weight = FloatText(ws[i].weight)
        /\ IF cs = << >> THEN row.Calories = ""
           ELSE \E i \in 1..Len(cs) : row.Calories = IntText(cs[i].calories)

\* C27: every data row of the exported file has the date, that date's
\* weight and that date's calories under the Date, Weight and Calories
\* columns, and importing the file into an empty database gives the
\* records of the user back.
C27_ExportRoundTrip ==
    /\ csv # NoFile =>
           \A i \in 1..Len(DictReader(csv)) : UnderItsColumns(DictReader(csv)[i])
    /\ restored # NoOutcome =>
           /\ restored.kind = "done"
           /\ Len(restored.weights) = RowsOf(weights, SessionUser)
           /\ Len(restored.calories) = RowsOf(calories, SessionUser)
           /\ RecordsOf(restored.weights, "weight")
                  = RecordsOf(WhereUser(weights, SessionUser), "weight")
           /\ RecordsOf(restored.calories, "calories")
                  = RecordsOf(WhereUser(calories, SessionUser), "calories")

===========================================================================
